---------------------------- MODULE Spec2Model ----------------------------
(* Model of the Git-Msg extension (src/src/extension.ts): the noise filter *)
(* preprocessDiff, the prompt builder buildPrompt, the message sanitizer   *)
(* at the end of generateCommitMessage, and the 'git-msg.generate' command *)
(* handler registered by activate.                                         *)
(*                                                                         *)
(* Text is a TLA+ string; the character at index i of s is SubSeq(s,i,i).  *)
(* SANY's lexer rejects the backtick (U+0060) inside a string literal, so   *)
(* the model writes that one character as "~", which occurs in no text of  *)
(* the source and in no other role in the model.                           *)
EXTENDS Integers, Sequences, FiniteSets, TLC

(***************************************************************************)
(* Text primitives of the JavaScript runtime the code relies on.           *)
(***************************************************************************)

\* s.charAt(i - 1): the one-character string at 1-based index i, the empty
\* string outside the text.
CharAt(s, i) == IF i \in 1..Len(s) THEN SubSeq(s, i, i) ELSE ""

\* s.slice(m - 1, n) for 1 <= m and n <= Len(s): the characters m..n, none
\* when m > n.
Slice(s, m, n) == IF m > n THEN "" ELSE SubSeq(s, m, n)

\* Characters String.prototype.trim removes (the ASCII part of WhiteSpace and
\* LineTerminator of the ECMAScript grammar).
WhiteSpace == {" ", "\t", "\n", "\r", "\f"}

\* Characters that end a line for ^ and $ under the m flag, and that "." does
\* not match.
LineTerminator == {"\n", "\r"}

\* \d
Digit == {"0", "1", "2", "3", "4", "5", "6", "7", "8", "9"}

\* [a-f0-9] (the noise patterns carry no i flag: lower case only)
HexDigit == Digit \cup {"a", "b", "c", "d", "e", "f"}

\* [a-z] under the i flag
Letter ==
    {"a", "b", "c", "d", "e", "f", "g", "h", "i", "j", "k", "l", "m",
     "n", "o", "p", "q", "r", "s", "t", "u", "v", "w", "x", "y", "z",
     "A", "B", "C", "D", "E", "F", "G", "H", "I", "J", "K", "L", "M",
     "N", "O", "P", "Q", "R", "S", "T", "U", "V", "W", "X", "Y", "Z"}

\* The backtick, and the three of them that open or close a fenced block.
Backtick == "~"

Fence == Backtick \o Backtick \o Backtick

\* s.startsWith(p, from - 1)
StartsWithAt(s, p, from) ==
    /\ from + Len(p) - 1 <= Len(s)
    /\ Slice(s, from, from + Len(p) - 1) = p

StartsWith(s, p) == StartsWithAt(s, p, 1)

\* s.endsWith(p)
EndsWith(s, p) ==
    /\ Len(p) <= Len(s)
    /\ Slice(s, Len(s) - Len(p) + 1, Len(s)) = p

\* The least index j in from..Len(s) whose character is not in class, or
\* Len(s) + 1 when there is none: where a greedy class* starting at from stops.
SpanEnd(s, from, class) ==
    CHOOSE j \in from..(Len(s) + 1) :
        /\ j = Len(s) + 1 \/ CharAt(s, j) \notin class
        /\ \A k \in from..(j - 1) : CharAt(s, k) \in class

\* The least index j in from..Len(s) whose character is in class, or
\* Len(s) + 1: where a greedy [^class]* starting at from stops.
SpanEndNot(s, from, class) ==
    CHOOSE j \in from..(Len(s) + 1) :
        /\ j = Len(s) + 1 \/ CharAt(s, j) \in class
        /\ \A k \in from..(j - 1) : CharAt(s, k) \notin class

\* s.trimStart()
TrimStart(s) == Slice(s, SpanEnd(s, 1, WhiteSpace), Len(s))

\* s.trimEnd(): drop is the length of the longest run of whitespace that ends
\* the text.
TrimEnd(s) ==
    LET drop == CHOOSE d \in 0..Len(s) :
                    /\ d = Len(s) \/ CharAt(s, Len(s) - d) \notin WhiteSpace
                    /\ \A k \in 0..(d - 1) : CharAt(s, Len(s) - k) \in WhiteSpace
    IN  Slice(s, 1, Len(s) - drop)

\* s.trim()
Trim(s) == TrimEnd(TrimStart(s))

\* The number of places at which p occurs in s (overlapping ones included).
Occurrences(s, p) ==
    Cardinality({i \in 1..(Len(s) - Len(p) + 1) : StartsWithAt(s, p, i)})

(***************************************************************************)
(* Constants of extension.ts.                                              *)
(***************************************************************************)

MAX_DIFF_CHARS == 12000

\* The text appended on truncation, and the marker proper inside it.
TruncationSuffix == "\n\n[... diff truncated for length ...]"

TruncationMarker == "[... diff truncated for length ...]"

\* NOISE_PATTERNS, by index. Each pattern is ^...$ under the g and m flags
\* and its body matches no line terminator, so a match is always one whole
\* line; LineMatches(k, line) says whether pattern k matches that line.
NoisePatternCount == 5

LineMatches(k, line) ==
    CASE k = 1 ->   \* /^index [a-f0-9]+\.\.[a-f0-9]+.*$/gm
            /\ StartsWith(line, "index ")
            /\ LET dots == SpanEnd(line, 7, HexDigit)
               IN  /\ dots > 7
                   /\ StartsWithAt(line, "..", dots)
                   /\ CharAt(line, dots + 2) \in HexDigit
      [] k = 2 ->   \* /^similarity index \d+%$/gm
            /\ StartsWith(line, "similarity index ")
            /\ LET pct == SpanEnd(line, 18, Digit)
               IN  /\ pct > 18
                   /\ pct = Len(line)
                   /\ CharAt(line, pct) = "%"
      [] k = 3 ->   \* /^old mode \d+$/gm
            /\ StartsWith(line, "old mode ")
            /\ Len(line) >= 10
            /\ SpanEnd(line, 10, Digit) = Len(line) + 1
      [] k = 4 ->   \* /^new mode \d+$/gm
            /\ StartsWith(line, "new mode ")
            /\ Len(line) >= 10
            /\ SpanEnd(line, 10, Digit) = Len(line) + 1
      [] k = 5 ->   \* /^Binary files .+ differ$/gm
            /\ StartsWith(line, "Binary files ")
            /\ EndsWith(line, " differ")
            /\ Len(line) >= Len("Binary files ") + 1 + Len(" differ")

(***************************************************************************)
(* preprocessDiff                                                          *)
(***************************************************************************)

\* diff.replace(NOISE_PATTERNS[k - 1], '') on the part of s from index from,
\* which starts a line: every line pattern k matches becomes empty, the line
\* terminators stay.
RECURSIVE RemoveNoiseFrom(_, _, _)
RemoveNoiseFrom(s, k, from) ==
    IF from > Len(s) THEN ""
    ELSE LET end  == SpanEndNot(s, from, LineTerminator)
             line == Slice(s, from, end - 1)
             kept == IF LineMatches(k, line) THEN "" ELSE line
         IN  IF end > Len(s) THEN kept
             ELSE kept \o CharAt(s, end) \o RemoveNoiseFrom(s, k, end + 1)

RemoveNoise(s, k) == RemoveNoiseFrom(s, k, 1)

\* The for loop over NOISE_PATTERNS: patterns 1..k applied in order.
RECURSIVE RemoveNoisePatterns(_, _)
RemoveNoisePatterns(s, k) ==
    IF k = 0 THEN s ELSE RemoveNoise(RemoveNoisePatterns(s, k - 1), k)

\* diff.replace(/\n{3,}/g, '\n\n') on the part of s from index from: each
\* maximal run of three or more "\n" becomes two.
RECURSIVE CollapseFrom(_, _)
CollapseFrom(s, from) ==
    LET starts == {i \in from..(Len(s) - 2) : StartsWithAt(s, "\n\n\n", i)}
    IN  IF starts = {} THEN Slice(s, from, Len(s))
        ELSE LET run == CHOOSE i \in from..(Len(s) - 2) :
                            /\ i \in starts
                            /\ \A k \in from..(i - 1) : k \notin starts
                 end == SpanEnd(s, run, {"\n"})
             IN  Slice(s, from, run - 1) \o "\n\n" \o CollapseFrom(s, end)

CollapseBlankLines(s) == CollapseFrom(s, 1)

\* Mutant of Truncate: the comparison is >= instead of >.
TruncateAtBudget(diff) ==
    IF Len(diff) >= MAX_DIFF_CHARS
    THEN Slice(diff, 1, MAX_DIFF_CHARS) \o TruncationSuffix
    ELSE diff

\* The if (diff.length > MAX_DIFF_CHARS) statement.
Truncate(diff) ==
    IF Len(diff) > MAX_DIFF_CHARS
    THEN Slice(diff, 1, MAX_DIFF_CHARS) \o TruncationSuffix
    ELSE diff

\* The text after noise removal and blank-line collapsing, before the cap.
Filtered(rawDiff) ==
    CollapseBlankLines(RemoveNoisePatterns(rawDiff, NoisePatternCount))

preprocessDiff(rawDiff) == Trim(Truncate(Filtered(rawDiff)))

(***************************************************************************)
(* The sanitizer at the end of generateCommitMessage                       *)
(***************************************************************************)

\* text.replace(/^FENCE[a-z]*\n?/i, ''): no g or m flag, so only a match at the
\* very start is replaced.
StripLeadingFence(text) ==
    IF StartsWith(text, Fence)
    THEN LET tagEnd == SpanEnd(text, 4, Letter)
             rest   == IF CharAt(text, tagEnd) = "\n" THEN tagEnd + 1 ELSE tagEnd
         IN  Slice(text, rest, Len(text))
    ELSE text

\* text.replace(/FENCE$/i, ''): $ without the m flag matches only at the end of
\* the text.
StripTrailingFence(text) ==
    IF EndsWith(text, Fence) THEN Slice(text, 1, Len(text) - 3) ELSE text

\* result.response.text().trim() followed by the return statement.
sanitize(generated) ==
    Trim(StripTrailingFence(StripLeadingFence(Trim(generated))))

(***************************************************************************)
(* buildPrompt                                                             *)
(***************************************************************************)

\* The template literal of buildPrompt up to ${branchName} (lines 180-184).
PromptHead ==
    "\n"
    \o "You are an expert software engineer writing Git commit messages.\n"
    \o "\n"
    \o "## Context\n"
    \o "Branch: "

\* The template between ${branchName} and ${stagedFiles} (lines 184-186).
PromptStaged ==
    "\n"
    \o "Staged files:\n"

\* The template between ${stagedFiles} and ${diff} (lines 186-219).
PromptRules ==
    "\n"
    \o "\n"
    \o "## Rules\n"
    \o "- Use Conventional Commits format: <type>(<scope>): <short summary>\n"
    \o "- Allowed types: feat, fix, refactor, chore, docs, style, test, perf, ci\n"
    \o "- Scope is optional but use it when the change is clearly scoped to one area\n"
    \o "- Summary line: max 72 characters, imperative mood (\"add\" not \"added\"), no period\n"
    \o "- Body (optional): explain WHAT changed and WHY, not HOW. Use bullet points.\n"
    \o "- Do NOT include a footer unless there is a breaking change (BREAKING CHANGE: ...)\n"
    \o "- Return ONLY the commit message. No explanations, no markdown fences, no quotes.\n"
    \o "\n"
    \o "## Examples\n"
    \o "\n"
    \o "### Example 1\n"
    \o "Diff: adds a new /health route that returns 200 OK\n"
    \o "Output:\n"
    \o "feat(api): add health check endpoint\n"
    \o "\n"
    \o "### Example 2\n"
    \o "Diff: fixes null pointer when user.profile is undefined\n"
    \o "Output:\n"
    \o "fix(profile): handle undefined user profile on load\n"
    \o "\n"
    \o "### Example 3\n"
    \o "Diff: extracts auth logic into useAuth hook, removes duplicate code in Login and Signup\n"
    \o "Output:\n"
    \o "refactor(auth): extract auth logic into useAuth hook\n"
    \o "\n"
    \o "- Move shared auth state to useAuth\n"
    \o "- Remove duplicated logic from Login and Signup components\n"
    \o "\n"
    \o "## Now write the commit message for this diff\n"
    \o "\n"

\* The template after ${diff} (lines 219-220).
PromptTail ==
    "\n"

\* Mutant of buildPrompt: the branch name and the staged files change places.
buildPromptSwapped(diff, stagedFiles, branchName) ==
    Trim(PromptHead \o stagedFiles \o PromptStaged \o branchName
         \o PromptRules \o diff \o PromptTail)

\* The template literal with its three substitutions, then .trim().
buildPrompt(diff, stagedFiles, branchName) ==
    Trim(PromptHead \o branchName \o PromptStaged \o stagedFiles
         \o PromptRules \o diff \o PromptTail)

(***************************************************************************)
(* State.                                                                  *)
(***************************************************************************)

\* Bound: how many invocations of the command the model runs, overlapping
\* in any way. Invocation i is the i-th one to be invoked.
MaxInvocations == 2

Inv == 1..MaxInvocations

\* The three queries of step 3, in the order of the Promise.all array.
Queries == {"diff", "staged", "branch"}

VARIABLES
    config,         \* the gitMsg settings: [geminiApiKey, model]
    gitExt,         \* the vscode.git extension: "missing", "inactive", "active"
    repositories,   \* git.repositories.length
    inputBox,       \* repo.inputBox.value of git.repositories[0]
    pc,             \* pc[i]: where invocation i of the handler stands
    query,          \* query[i][q]: the promise of query q: "none" (not
                    \* made), "pending", "ok" (resolved) or "failed"
    result,         \* result[i][q]: the value Promise.all holds for query q
    request,        \* request[i]: the generateContent call in flight, or NoRequest
    generated,      \* generated[i]: result.response.text() of the provider
    message,        \* message[i]: the handler's local const message
    shown,          \* shown[i]: the notifications invocation i has shown
    runnerCalls,    \* runnerCalls[i][q]: cp.exec calls issued for query q
    providerCalls,  \* providerCalls[i]: model.generateContent calls issued
    fnIn,           \* the argument of the function under test
    fnOut           \* the results of applying it, in order

handlerVars ==
    <<config, gitExt, repositories, inputBox, pc, query, result, request,
      generated, message, shown, runnerCalls, providerCalls>>

fnVars == <<fnIn, fnOut>>

vars == <<handlerVars, fnVars>>

(***************************************************************************)
(* The environment's answers, drawn from small sets.                       *)
(***************************************************************************)

\* config.get('geminiApiKey'): unset (modelled as "", falsy like undefined)
\* or a key.
ApiKeys == {"", "AIza-key"}

\* config.get('model'): unset or an override.
ModelSettings == {"", "gemini-1.5-pro"}

\* What cp.exec hands the callback: err is the error's message, "" for a
\* null err. A failed git command exits non-zero with its complaint on
\* stderr; a git that cannot be spawned leaves stderr empty.
ExecFailure(q) ==
    IF q = "staged"
    THEN [err |-> "spawn git ENOENT", stdout |-> "", stderr |-> ""]
    ELSE [err |-> "Command failed: git", stdout |-> "",
          stderr |-> "fatal: not a git repository\n"]

ExecStdout(q) ==
    CASE q = "diff" ->
            {" \n", "index 111..222 100644\n--- a/f.py\n+new\n"}
      [] q = "staged" -> {"M\tf.py\n"}
      [] q = "branch" -> {"main\n"}

ExecResults(q) ==
    {ExecFailure(q)}
    \cup {[err |-> "", stdout |-> out, stderr |-> ""] : out \in ExecStdout(q)}

\* What generateContent does: it resolves to a response whose text() is
\* text, or it rejects with an error whose message is text.
ProviderReplies ==
    {[ok |-> TRUE,  text |-> Fence \o "\nfix(f): update value\n" \o Fence],
     [ok |-> TRUE,  text |-> "feat(f): add g\n"],
     [ok |-> TRUE,  text |-> Fence],
     [ok |-> FALSE, text |-> "API key not valid"]}

\* No generateContent call in flight.
NoRequest == [model |-> "", apiKey |-> "", prompt |-> ""]

\* The input box before the command runs: what the user had typed.
InitialInputBox == "wip"

(***************************************************************************)
(* The command handler of activate (lines 34-101).                         *)
(***************************************************************************)

\* vscode.window.show{Error,Warning,Information}Message by invocation i. The
\* texts are those of the source in ASCII: its arrow is written "->" and the
\* check mark that ends the "ready" message is left out.
Show(i, kind, text) ==
    shown' = [shown EXCEPT ![i] = Append(@, [kind |-> kind, text |-> text])]

\* The catch block (lines 97-100).
CatchText(errMessage) == "Git-Msg Error: " \o errMessage

\* config.get<string>('model') || 'gemini-2.0-flash'
ModelName == IF config.model = "" THEN "gemini-2.0-flash" ELSE config.model

\* Mutant of NothingStaged: the check is left out.
NothingStagedNever(rawDiff) == FALSE

\* !rawDiff.trim()

NothingStaged(rawDiff) == Trim(rawDiff) = ""

\* Mutant of Gather: the diff query is run a second time.
GatherTwice(i) ==
    /\ query' = [query EXCEPT ![i] = [q \in Queries |-> "pending"]]
    /\ runnerCalls' = [runnerCalls EXCEPT ![i] =
                          [q \in Queries |-> IF q = "diff" THEN @[q] + 2 ELSE @[q] + 1]]

\* The three execCommand calls that build the Promise.all array (lines
\* 68-72): each calls cp.exec once, at once.
Gather(i) ==
    /\ query' = [query EXCEPT ![i] = [q \in Queries |-> "pending"]]
    /\ runnerCalls' = [runnerCalls EXCEPT ![i] = [q \in Queries |-> @[q] + 1]]

\* Lines 58-72, reached with the git extension active: the repository check
\* and, past it, the start of the three queries.
ResolveRepository(i) ==
    IF repositories = 0
    THEN /\ Show(i, "error", "Git-Msg: No Git repository is open.")
         /\ pc' = [pc EXCEPT ![i] = "done"]
         /\ UNCHANGED <<query, runnerCalls>>
    ELSE /\ Gather(i)
         /\ pc' = [pc EXCEPT ![i] = "gather"]
         /\ UNCHANGED shown

\* The handler is invoked and runs to its first await (lines 35-68).
Invoke(i) ==
    /\ pc[i] = "idle"
    /\ \A j \in 1..(i - 1) : pc[j] # "idle"
    /\ IF config.geminiApiKey = ""
       THEN /\ Show(i, "error",
                    "Git-Msg: No API key found. Add it via Settings -> gitMsg.geminiApiKey")
            /\ pc' = [pc EXCEPT ![i] = "done"]
            /\ UNCHANGED <<query, runnerCalls>>
       ELSE IF gitExt = "missing"
       THEN /\ Show(i, "error", "Git-Msg: VS Code Git extension not found.")
            /\ pc' = [pc EXCEPT ![i] = "done"]
            /\ UNCHANGED <<query, runnerCalls>>
       ELSE IF gitExt = "inactive"
       THEN /\ pc' = [pc EXCEPT ![i] = "activating"]
            /\ UNCHANGED <<query, runnerCalls, shown>>
       ELSE ResolveRepository(i)
    /\ UNCHANGED <<config, gitExt, repositories, inputBox, result, request,
                   generated, message, providerCalls, fnVars>>

\* await gitExtension.activate() settles (line 55): it resolves, and the
\* handler goes on to line 58, or it rejects, and the catch block runs.
Activated(i) ==
    /\ pc[i] = "activating"
    /\ \E ok \in BOOLEAN :
          IF ok
          THEN /\ gitExt' = "active"
               /\ ResolveRepository(i)
          ELSE /\ Show(i, "error", CatchText("Git extension failed to activate"))
               /\ pc' = [pc EXCEPT ![i] = "done"]
               /\ UNCHANGED <<gitExt, query, runnerCalls>>
    /\ UNCHANGED <<config, repositories, inputBox, result, request, generated,
                   message, providerCalls, fnVars>>

\* Lines 74-90 and 155-166, which run when Promise.all resolves: the
\* nothing-staged check, then preprocessDiff, buildPrompt and the call of
\* generateContent. res is the array Promise.all resolved to.
AfterGather(i, res) ==
    IF NothingStaged(res["diff"])
    THEN /\ Show(i, "warning",
                 "Git-Msg: No staged changes found. Run \"git add\" first.")
         /\ pc' = [pc EXCEPT ![i] = "done"]
         /\ UNCHANGED <<request, providerCalls>>
    ELSE /\ request' = [request EXCEPT ![i] =
                [model  |-> ModelName,
                 apiKey |-> config.geminiApiKey,
                 prompt |-> buildPrompt(preprocessDiff(res["diff"]),
                                        res["staged"], res["branch"])]]
         /\ providerCalls' = [providerCalls EXCEPT ![i] = @ + 1]
         /\ pc' = [pc EXCEPT ![i] = "generating"]
         /\ UNCHANGED shown

\* The callback cp.exec calls when the process of query q of invocation i
\* has ended (lines 110-113), and what the settled promise sets off: the
\* first rejection rejects Promise.all, which drops the values it holds, and
\* the catch block runs; the third resolution resolves it and the handler
\* goes on. Once Promise.all has
\* settled (pc[i] is no longer "gather") the callback only settles its own
\* promise, whose value nothing reads.
ExecCallback(i, q) ==
    /\ query[i][q] = "pending"
    /\ \E r \in ExecResults(q) :
          IF r.err # ""
          THEN /\ query' = [query EXCEPT ![i][q] = "failed"]
               /\ UNCHANGED <<request, providerCalls>>
               /\ IF pc[i] = "gather"
                  THEN /\ result' = [result EXCEPT ![i] = [o \in Queries |-> ""]]
                       /\ Show(i, "error",
                               CatchText(IF r.stderr # "" THEN r.stderr ELSE r.err))
                       /\ pc' = [pc EXCEPT ![i] = "done"]
                  ELSE UNCHANGED <<result, shown, pc>>
          ELSE /\ query' = [query EXCEPT ![i][q] = "ok"]
               /\ IF pc[i] = "gather"
                  THEN /\ result' = [result EXCEPT ![i][q] = Trim(r.stdout)]
                       /\ IF \A o \in Queries : query'[i][o] = "ok"
                          THEN AfterGather(i, result'[i])
                          ELSE UNCHANGED <<shown, pc, request, providerCalls>>
                  ELSE UNCHANGED <<result, shown, pc, request, providerCalls>>
    /\ UNCHANGED <<config, gitExt, repositories, inputBox, generated, message,
                   runnerCalls, fnVars>>

\* Mutant of ProviderFailed: the failure reaches the input box.
ProviderFailedAndWrites(i, errMessage) ==
    /\ Show(i, "error", CatchText(errMessage))
    /\ inputBox' = errMessage
    /\ UNCHANGED <<generated, message>>

\* await model.generateContent(prompt) rejects (or text() throws): the catch
\* block runs.
ProviderFailed(i, errMessage) ==
    /\ Show(i, "error", CatchText(errMessage))
    /\ UNCHANGED <<generated, message, inputBox>>

\* Lines 166-170 and 92-95: the text is sanitized and, when the message is
\* not empty, written to the input box and announced.
ProviderAnswered(i, text) ==
    /\ generated' = [generated EXCEPT ![i] = text]
    /\ message' = [message EXCEPT ![i] = sanitize(text)]
    /\ IF message'[i] # ""
       THEN /\ inputBox' = message'[i]
            /\ Show(i, "info", "Git-Msg: Commit message ready")
       ELSE UNCHANGED <<inputBox, shown>>

\* The generateContent call of invocation i settles.
ProviderReturn(i) ==
    /\ pc[i] = "generating"
    /\ \E reply \in ProviderReplies :
          IF reply.ok
          THEN ProviderAnswered(i, reply.text)
          ELSE ProviderFailed(i, reply.text)
    /\ request' = [request EXCEPT ![i] = NoRequest]
    /\ pc' = [pc EXCEPT ![i] = "done"]
    /\ UNCHANGED <<config, gitExt, repositories, query, result, runnerCalls,
                   providerCalls, fnVars>>

\* No function is under test while the handler runs.
FnIdle == fnIn = "" /\ fnOut = <<>>

\* Before the command is invoked.
HandlerInit ==
    /\ config \in [geminiApiKey : ApiKeys, model : ModelSettings]
    /\ gitExt \in {"missing", "inactive", "active"}
    /\ repositories \in {0, 1}
    /\ inputBox = InitialInputBox
    /\ pc = [i \in Inv |-> "idle"]
    /\ query = [i \in Inv |-> [q \in Queries |-> "none"]]
    /\ result = [i \in Inv |-> [q \in Queries |-> ""]]
    /\ request = [i \in Inv |-> NoRequest]
    /\ generated = [i \in Inv |-> ""]
    /\ message = [i \in Inv |-> ""]
    /\ shown = [i \in Inv |-> <<>>]
    /\ runnerCalls = [i \in Inv |-> [q \in Queries |-> 0]]
    /\ providerCalls = [i \in Inv |-> 0]

Init == HandlerInit /\ FnIdle

Next ==
    \E i \in Inv :
        \/ Invoke(i)
        \/ Activated(i)
        \/ \E q \in Queries : ExecCallback(i, q)
        \/ ProviderReturn(i)

Spec == Init /\ [][Next]_vars

(***************************************************************************)
(* The functions on their own: a specification draws the argument from a  *)
(* bounded set of texts and applies the function, twice where a claim      *)
(* speaks of applying it again.                                            *)
(***************************************************************************)

\* Bound: the longest generated text given to the sanitizer.
MaxTextLen == 7

\* Bound: how many fragments a short diff is put together from.
MaxFragments == 3

\* Bound: how far the long run of a long diff is from MAX_DIFF_CHARS.
PadSlack == 1

\* All texts of at most n characters of alphabet.
RECURSIVE Texts(_, _)
Texts(alphabet, n) ==
    IF n = 0 THEN {""}
    ELSE LET shorter == Texts(alphabet, n - 1)
         IN  shorter \cup {t \o c : t \in shorter, c \in alphabet}

\* All concatenations of at most n of the fragments.
RECURSIVE Concatenations(_, _)
Concatenations(fragments, n) ==
    IF n = 0 THEN {""}
    ELSE LET shorter == Concatenations(fragments, n - 1)
         IN  shorter \cup {t \o f : t \in shorter, f \in fragments}

\* c repeated n times.
RECURSIVE Repeat(_, _)
Repeat(c, n) ==
    IF n = 0 THEN ""
    ELSE IF n % 2 = 0 THEN LET half == Repeat(c, n \div 2) IN half \o half
    ELSE c \o Repeat(c, n - 1)

SanitizeInputs == Texts({Backtick, "a", "\n", " "}, MaxTextLen)

ShortDiffs ==
    Concatenations({"old mode 1", "index a..b", "Binary files a and b differ",
                    "\n", " ", "+x", "\r\n"}, MaxFragments)

LongDiffs ==
    {pre \o Repeat("x", MAX_DIFF_CHARS + d) \o post :
        pre \in {"", " ", "old mode 1\n"},
        post \in {"", "\nold mode 1", "\n\n\n+x\n"},
        d \in (0 - PadSlack)..PadSlack}

FilterInputs == ShortDiffs \cup LongDiffs

PromptInputs ==
    [raw    : {"+new", "index 1..2\n+main", " \n+x \n", "old mode 1",
               "-fix\n+feat", "+a\n\n\n\n+b"},
     staged : {"M\tf.py", "A\tmain.py\nM\tb.py", ""},
     branch : {"main", "fix", "feat/x", "f"}]

\* The handler at rest while a function is under test.
HandlerIdle ==
    /\ HandlerInit
    /\ config = [geminiApiKey |-> "", model |-> ""]
    /\ gitExt = "active"
    /\ repositories = 1

\* The argument of the latest application: the input, then the last result.
Latest == IF fnOut = <<>> THEN fnIn ELSE fnOut[Len(fnOut)]

SanitizeInit == HandlerIdle /\ fnIn \in SanitizeInputs /\ fnOut = <<>>

ApplySanitize ==
    /\ Len(fnOut) < 2
    /\ fnOut' = Append(fnOut, sanitize(Latest))
    /\ UNCHANGED <<fnIn, handlerVars>>

SpecSanitize == SanitizeInit /\ [][ApplySanitize]_vars

FilterInit == HandlerIdle /\ fnIn \in FilterInputs /\ fnOut = <<>>

ApplyFilter ==
    /\ Len(fnOut) < 2
    /\ fnOut' = Append(fnOut, preprocessDiff(Latest))
    /\ UNCHANGED <<fnIn, handlerVars>>

SpecFilter == FilterInit /\ [][ApplyFilter]_vars

PromptInit == HandlerIdle /\ fnIn \in PromptInputs /\ fnOut = <<>>

\* The body of the withProgress callback up to the prompt (lines 87 and 165).
ApplyPrompt ==
    /\ fnOut = <<>>
    /\ fnOut' = <<buildPrompt(preprocessDiff(fnIn.raw), fnIn.staged, fnIn.branch)>>
    /\ UNCHANGED <<fnIn, handlerVars>>

SpecPrompt == PromptInit /\ [][ApplyPrompt]_vars

(***************************************************************************)
(* Claims about the command handler, checked under Spec.                   *)
(***************************************************************************)

\* C1: the handler short-circuits at every guard. With no API key neither
\* the runner nor the provider is ever called; the provider is called only
\* by an invocation whose three queries have all succeeded and whose RawDiff
\* is not blank.
C1_ShortCircuit ==
    \A i \in Inv :
        /\ config.geminiApiKey = "" =>
              /\ providerCalls[i] = 0
              /\ \A q \in Queries : runnerCalls[i][q] = 0
        /\ providerCalls[i] > 0 =>
              /\ config.geminiApiKey # ""
              /\ \A q \in Queries : query[i][q] = "ok"
              /\ Trim(result[i]["diff"]) # ""

\* One invocation has called the provider while another has ended on a
\* failed query without calling it.
C1_Witness ==
    \E i, j \in Inv :
        /\ providerCalls[i] = 1
        /\ pc[j] = "done"
        /\ \E q \in Queries : query[j][q] = "failed"
        /\ providerCalls[j] = 0

\* C2: the input box changes only in the step in which an invocation whose
\* every prior step succeeded gets the provider's answer, and then to exactly
\* the sanitized text; no step that ends an invocation in an error or in the
\* nothing-staged warning changes it.
C2_WriteOnlyOnSuccess ==
    [][inputBox' # inputBox =>
        \E i \in Inv :
            /\ pc[i] = "generating"
            /\ pc'[i] = "done"
            /\ config.geminiApiKey # ""
            /\ repositories > 0
            /\ \A q \in Queries : query[i][q] = "ok"
            /\ Trim(result[i]["diff"]) # ""
            /\ inputBox' = sanitize(generated'[i])
            /\ \A k \in 1..Len(shown'[i]) : shown'[i][k].kind = "info"]_vars

\* One invocation has delivered its message to the input box and another has
\* ended in an error.
C2_Witness ==
    \E i, j \in Inv :
        /\ pc[i] = "done"
        /\ message[i] # ""
        /\ inputBox = message[i]
        /\ pc[j] = "done"
        /\ \E k \in 1..Len(shown[j]) : shown[j][k].kind = "error"

\* The user-visible outcomes of invocation i: its error and warning
\* notifications, and the delivery of a message to the input box (which the
\* "ready" notification announces).
Outcomes(i) == Len(shown[i])

\* C3: every invocation that has ended has had exactly one user-visible
\* outcome, an error carrying the prefix Git-Msg, a warning, or the delivery
\* of the message; none ends silently, whatever the provider returned.
C3_ExactlyOneOutcome ==
    \A i \in Inv :
        pc[i] = "done" =>
            /\ Outcomes(i) = 1
            /\ shown[i][1].kind = "error" => StartsWith(shown[i][1].text, "Git-Msg")

\* C4: within one invocation each of the three queries is run exactly once,
\* all three together, and the provider is called exactly once when the
\* handler reaches it; nothing is issued a second time, also after a query
\* has failed while others are still running.
C4_ExactlyOnce ==
    \A i \in Inv :
        /\ \A q \in Queries :
              /\ runnerCalls[i][q] <= 1
              /\ runnerCalls[i][q] = 1 <=> query[i][q] # "none"
              /\ runnerCalls[i][q] = runnerCalls[i]["diff"]
        /\ providerCalls[i] <= 1
        /\ pc[i] = "generating" => providerCalls[i] = 1
        /\ request[i] # NoRequest => providerCalls[i] = 1
        /\ message[i] # "" => providerCalls[i] = 1

\* One invocation has ended on a failed query while another of its queries
\* is still running, and another invocation has called the provider.
C4_Witness ==
    \E i, j \in Inv :
        /\ pc[i] = "done"
        /\ \E q, o \in Queries : query[i][q] = "failed" /\ query[i][o] = "pending"
        /\ providerCalls[j] = 1

\* The invocations that wrote a message to the input box.
Delivered == {i \in Inv : pc[i] = "done" /\ message[i] # ""}

\* The input box after the same invocations run one after the other in start
\* order (invocation i is the i-th started): the message of the last one
\* that delivered.
SerialInputBox ==
    IF Delivered = {} THEN InitialInputBox
    ELSE message[CHOOSE i \in Delivered : \A j \in Delivered : j <= i]

\* C5: overlapping invocations share no mutable state, so once all have
\* ended the input box holds what it would hold had they run one after the
\* other in start order.
C5_AsIfSerial ==
    (\A i \in Inv : pc[i] = "done") => inputBox = SerialInputBox

(***************************************************************************)
(* Claims about the sanitizer, checked under SpecSanitize.                 *)
(***************************************************************************)

\* C6: the FinalMessage the sanitizer produces never starts with a
\* triple-backtick fence and never ends with one.
C6_NoFenceAtEnds ==
    Len(fnOut) >= 1 =>
        /\ ~StartsWith(fnOut[1], Fence)
        /\ ~EndsWith(fnOut[1], Fence)

\* C7: the sanitizer is idempotent: sanitize(sanitize(t)) = sanitize(t).
C7_SanitizeIdempotent ==
    Len(fnOut) = 2 => fnOut[2] = fnOut[1]

(***************************************************************************)
(* Claims about the noise filter, checked under SpecFilter.                *)
(***************************************************************************)

\* C8: the noise filter is idempotent on every input:
\* preprocessDiff(preprocessDiff(d)) = preprocessDiff(d).
C8_FilterIdempotent ==
    Len(fnOut) = 2 => fnOut[2] = fnOut[1]

\* C10 as stated: the output is at most the budget plus the length of the
\* marker "[... diff truncated for length ...]" long; it ends with the marker
\* when the filtered text is longer than the budget, and nothing is appended
\* when it is not.
C10_LengthWithinMarker ==
    Len(fnOut) >= 1 =>
        LET filtered == Filtered(fnIn)
        IN  /\ Len(fnOut[1]) <= MAX_DIFF_CHARS + Len(TruncationMarker)
            /\ Len(filtered) > MAX_DIFF_CHARS =>
                  EndsWith(fnOut[1], TruncationMarker)
            /\ Len(filtered) <= MAX_DIFF_CHARS =>
                  fnOut[1] = Trim(filtered)

\* C10 amended: the output is at most the budget plus the length of the
\* appended text, which is two newlines and the marker, long; it ends with
\* the marker when the filtered text is longer than the budget, and nothing
\* is appended when it is not.
C10_LengthWithinSuffix ==
    Len(fnOut) >= 1 =>
        LET filtered == Filtered(fnIn)
        IN  /\ Len(fnOut[1]) <= MAX_DIFF_CHARS + Len(TruncationSuffix)
            /\ Len(filtered) > MAX_DIFF_CHARS =>
                  EndsWith(fnOut[1], TruncationMarker)
            /\ Len(filtered) <= MAX_DIFF_CHARS =>
                  fnOut[1] = Trim(filtered)

\* A diff whose filtered text is over the budget has been cut, and the
\* output is as long as the amended bound allows.
C10_Witness ==
    /\ Len(fnOut) >= 1
    /\ Len(Filtered(fnIn)) > MAX_DIFF_CHARS
    /\ Len(fnOut[1]) = MAX_DIFF_CHARS + Len(TruncationSuffix)

(***************************************************************************)
(* Claims about the prompt builder, checked under SpecPrompt.              *)
(***************************************************************************)

\* C9 as stated: the prompt contains the branch name exactly once and the
\* staged-file text exactly once, and ends with the cleaned diff.
C9_ExactlyOnce ==
    Len(fnOut) >= 1 =>
        /\ Occurrences(fnOut[1], fnIn.branch) = 1
        /\ Occurrences(fnOut[1], fnIn.staged) = 1
        /\ EndsWith(fnOut[1], preprocessDiff(fnIn.raw))

\* C9 amended: the prompt contains the branch name and the staged-file text
\* verbatim at least once each, the branch name right after "Branch: " and
\* the staged-file text on the line after "Staged files:", and ends with the
\* cleaned diff.
C9_AtLeastOnce ==
    Len(fnOut) >= 1 =>
        /\ Occurrences(fnOut[1], fnIn.branch) >= 1
        /\ Occurrences(fnOut[1], fnIn.staged) >= 1
        /\ Occurrences(fnOut[1], "Branch: " \o fnIn.branch \o "\nStaged files:\n"
                                  \o fnIn.staged \o "\n") >= 1
        /\ EndsWith(fnOut[1], preprocessDiff(fnIn.raw))

\* A prompt has been built for a branch whose name also occurs in the fixed
\* template, with a cleaned diff that is not empty.
C9_Witness ==
    /\ Len(fnOut) >= 1
    /\ fnIn.branch = "fix"
    /\ Occurrences(fnOut[1], fnIn.branch) > 1
    /\ preprocessDiff(fnIn.raw) # ""

=============================================================================
